---- MODULE Spec2Model ----
(***************************************************************************)
(* Model of the issue-ranking client of jira-cli (pkg/jira/issue.go,       *)
(* Client.RankIssues) and of the transport it talks to.                    *)
(*                                                                         *)
(* Strings the code builds with fmt.Errorf are modelled as sequences of    *)
(* text pieces (the format string's literal part followed by the values it *)
(* embeds); "the message contains s" is "s is a contiguous run of pieces". *)
(* A response's Status is the standard status line net/http gives for its  *)
(* StatusCode.                                                             *)
(***************************************************************************)
EXTENDS Integers, Sequences, FiniteSets, TLC

\* ------------------------------------------------------------------------
\* Bounds
\* ------------------------------------------------------------------------
MaxIssues == 2
MaxCalls == 2
MaxLinks == 2
MaxComments == 2

\* ------------------------------------------------------------------------
\* Inputs
\* ------------------------------------------------------------------------
IssueKeys == {"TEST-1", "TEST-3"}
RefKeys == {"", "TEST-2", "TEST-4"}

IssueLists == UNION {[1..n -> IssueKeys] : n \in 0..MaxIssues}

\* The rank instructions a caller can hand to RankIssues: the values of
\* IssueRankPayload.
Instructions ==
    [Issues : IssueLists, RankBeforeIssue : RefKeys, RankAfterIssue : RefKeys]

\* IssueRankPayload carries the issues and the two references.
IssueRankPayload(instr) ==
    [Issues |-> instr.Issues,
     RankBeforeIssue |-> instr.RankBeforeIssue,
     RankAfterIssue |-> instr.RankAfterIssue]

NoInstruction ==
    [Issues |-> <<>>, RankBeforeIssue |-> "", RankAfterIssue |-> ""]

\* ------------------------------------------------------------------------
\* Errors
\* ------------------------------------------------------------------------
Nil == [type |-> "nil", msg |-> <<>>]

Errorf(pieces) == [type |-> "errorString", msg |-> pieces]

ErrNoIssues == Errorf(<<"no issues provided to rank">>)
ErrNoReference ==
    Errorf(<<"either rankBeforeIssue or rankAfterIssue must be specified">>)
ErrBothReferences ==
    Errorf(<<"rankBeforeIssue and rankAfterIssue cannot both be specified">>)

ErrEmptyResponse ==
    [type |-> "ErrEmptyResponse", msg |-> <<"jira: empty response from server">>]

ErrCallFailed(e) ==
    [type |-> "wrapError",
     msg |-> <<"failed to call rank issues API: ">> \o e.msg]

ErrMultiStatus(status) ==
    Errorf(<<"rank issues operation resulted in multi-status (some may have failed): ",
             status>>)

\* ------------------------------------------------------------------------
\* HTTP responses
\* ------------------------------------------------------------------------
StatusCodes == {200, 201, 204, 207, 400, 403}

StatusNoContent == 204
StatusMultiStatus == 207

StatusLine(code) ==
    CASE code = 200 -> "200 OK"
      [] code = 201 -> "201 Created"
      [] code = 204 -> "204 No Content"
      [] code = 207 -> "207 Multi-Status"
      [] code = 400 -> "400 Bad Request"
      [] code = 403 -> "403 Forbidden"

EmptyBody == [kind |-> "empty", errorMessages |-> <<>>, errors |-> <<>>]
TextBody == [kind |-> "text", errorMessages |-> <<>>, errors |-> <<>>]
JsonErrorsBody ==
    [kind |-> "json", errorMessages |-> <<"Request failed">>,
     errors |-> << <<"field", "Some issue with a field">> >>]
JsonMessagesBody ==
    [kind |-> "json", errorMessages |-> <<"Request failed", "Issue does not exist">>,
     errors |-> <<>>]
JsonObjectBody == [kind |-> "json", errorMessages |-> <<>>, errors |-> <<>>]

JsonArrayBody == [kind |-> "jsonArray", errorMessages |-> <<>>, errors |-> <<>>]

\* A body whose reader fails at the first read.
BrokenBody == [kind |-> "broken", errorMessages |-> <<>>, errors |-> <<>>]

Bodies ==
    {EmptyBody, TextBody, JsonErrorsBody, JsonMessagesBody, JsonObjectBody,
     JsonArrayBody, BrokenBody}

Responses ==
    {[present |-> TRUE, StatusCode |-> c, Status |-> StatusLine(c), Body |-> b] :
        c \in StatusCodes, b \in Bodies}

NilResponse ==
    [present |-> FALSE, StatusCode |-> 0, Status |-> "", Body |-> EmptyBody]

TransportError == [type |-> "transport", msg |-> <<"context deadline exceeded">>]

\* What PutV1 can return: (response-or-nil, error-or-nil).
Answers == [res : Responses \cup {NilResponse}, err : {Nil, TransportError}]

NoAnswer == [res |-> NilResponse, err |-> Nil]

\* ------------------------------------------------------------------------
\* Pure parts of RankIssues
\* ------------------------------------------------------------------------
Range(s) == {s[i] : i \in 1..Len(s)}

\* sub is a contiguous run of pieces of msg
Contains(msg, sub) ==
    \E i \in 0..(Len(msg) - Len(sub)) : SubSeq(msg, i + 1, i + Len(sub)) = sub

\* Variants of Validate with one check changed.
ValidateNoBothCheck(p) ==
    IF Len(p.Issues) = 0 THEN ErrNoIssues
    ELSE IF p.RankBeforeIssue = "" /\ p.RankAfterIssue = "" THEN ErrNoReference
    ELSE Nil

ValidateBothFirst(p) ==
    IF p.RankBeforeIssue # "" /\ p.RankAfterIssue # "" THEN ErrBothReferences
    ELSE IF Len(p.Issues) = 0 THEN ErrNoIssues
    ELSE IF p.RankBeforeIssue = "" /\ p.RankAfterIssue = "" THEN ErrNoReference
    ELSE Nil

ValidateReferencesFirst(p) ==
    IF p.RankBeforeIssue = "" /\ p.RankAfterIssue = "" THEN ErrNoReference
    ELSE IF p.RankBeforeIssue # "" /\ p.RankAfterIssue # "" THEN ErrBothReferences
    ELSE IF Len(p.Issues) = 0 THEN ErrNoIssues
    ELSE Nil

ValidateEitherIsBoth(p) ==
    IF Len(p.Issues) = 0 THEN ErrNoIssues
    ELSE IF p.RankBeforeIssue = "" /\ p.RankAfterIssue = "" THEN ErrNoReference
    ELSE IF p.RankBeforeIssue # "" \/ p.RankAfterIssue # "" THEN ErrBothReferences
    ELSE Nil

ValidateNoEmptyCheck(p) ==
    IF p.RankBeforeIssue = "" /\ p.RankAfterIssue = "" THEN ErrNoReference
    ELSE IF p.RankBeforeIssue # "" /\ p.RankAfterIssue # "" THEN ErrBothReferences
    ELSE Nil

\* The three checks at the head of RankIssues, in the order of the code;
\* Nil when the payload passes.
Validate(p) ==
    IF Len(p.Issues) = 0 THEN ErrNoIssues
    ELSE IF p.RankBeforeIssue = "" /\ p.RankAfterIssue = "" THEN ErrNoReference
    ELSE IF p.RankBeforeIssue # "" /\ p.RankAfterIssue # "" THEN ErrBothReferences
    ELSE Nil

\* A JSON object is the sequence of its members, in encoding order.
Member(k, v) == [key |-> k, value |-> v]

Keys(obj) == {obj[i].key : i \in 1..Len(obj)}

MarshalNoOmitEmpty(p) ==
    <<Member("issues", p.Issues),
      Member("rankBeforeIssue", p.RankBeforeIssue),
      Member("rankAfterIssue", p.RankAfterIssue)>>

MarshalSwappedKeys(p) ==
    <<Member("issues", p.Issues)>>
    \o (IF p.RankBeforeIssue # "" THEN <<Member("rankAfterIssue", p.RankBeforeIssue)>>
        ELSE <<>>)
    \o (IF p.RankAfterIssue # "" THEN <<Member("rankBeforeIssue", p.RankAfterIssue)>>
        ELSE <<>>)

\* json.Marshal of an IssueRankPayload: issues always, the two references
\* under omitempty.
Marshal(p) ==
    <<Member("issues", p.Issues)>>
    \o (IF p.RankBeforeIssue # "" THEN <<Member("rankBeforeIssue", p.RankBeforeIssue)>>
        ELSE <<>>)
    \o (IF p.RankAfterIssue # "" THEN <<Member("rankAfterIssue", p.RankAfterIssue)>>
        ELSE <<>>)

\* The value of member k of a JSON object, or the zero value when absent.
Field(obj, k, zero) ==
    IF k \in Keys(obj)
    THEN (CHOOSE m \in Range(obj) : m.key = k).value
    ELSE zero

\* json.Unmarshal of a request body into an IssueRankPayload, as the
\* server side (and the tests' JSONEq) reads it.
Unmarshal(obj) ==
    [Issues |-> Field(obj, "issues", <<>>),
     RankBeforeIssue |-> Field(obj, "rankBeforeIssue", ""),
     RankAfterIssue |-> Field(obj, "rankAfterIssue", "")]

PutV1NoContentType(body) ==
    [method |-> "PUT", api |-> "/rest/agile/1.0", path |-> "/issue/rank",
     Accept |-> "application/json", ContentType |-> "",
     body |-> body]

\* The request c.PutV1 is called with.
PutV1(body) ==
    [method |-> "PUT", api |-> "/rest/agile/1.0", path |-> "/issue/rank",
     Accept |-> "application/json", ContentType |-> "application/json",
     body |-> body]

\* Decoding a response body into the structured error (errorMessages,
\* errors); ok is FALSE for an empty body and for one that is not a JSON
\* object.
Decode(body) ==
    IF body.kind = "json"
    THEN [ok |-> TRUE, ErrorMessages |-> body.errorMessages, Errors |-> body.errors]
    ELSE [ok |-> FALSE, ErrorMessages |-> <<>>, Errors |-> <<>>]

RECURSIVE FieldErrors(_)
FieldErrors(errs) ==
    IF errs = <<>> THEN <<>>
    ELSE <<Head(errs)[1], ": ", Head(errs)[2]>> \o FieldErrors(Tail(errs))

formatUnexpectedResponse(res) ==
    LET b == Decode(res.Body) IN
    [type |-> "ErrUnexpectedResponse",
     msg |-> IF res.Body.kind = "empty"
             THEN <<"unexpected response: ", res.Status, " with empty body">>
             ELSE <<"unexpected response: ", res.Status>>
                  \o b.ErrorMessages \o FieldErrors(b.Errors)]

\* Variants of RankIssuesResult with one branch changed.
ResultSuccessNeedsEmptyBody(a) ==
    IF a.err # Nil THEN ErrCallFailed(a.err)
    ELSE IF ~a.res.present THEN ErrEmptyResponse
    ELSE IF a.res.StatusCode = StatusNoContent /\ a.res.Body.kind = "empty" THEN Nil
    ELSE IF a.res.StatusCode = StatusMultiStatus THEN ErrMultiStatus(a.res.Status)
    ELSE formatUnexpectedResponse(a.res)

ResultNoMultiStatusBranch(a) ==
    IF a.err # Nil THEN ErrCallFailed(a.err)
    ELSE IF ~a.res.present THEN ErrEmptyResponse
    ELSE IF a.res.StatusCode = StatusNoContent THEN Nil
    ELSE formatUnexpectedResponse(a.res)

ResultStatusOnly(a) ==
    IF a.err # Nil THEN ErrCallFailed(a.err)
    ELSE IF ~a.res.present THEN ErrEmptyResponse
    ELSE IF a.res.StatusCode = StatusNoContent THEN Nil
    ELSE ErrMultiStatus(a.res.Status)

ResultOkIsSuccess(a) ==
    IF a.err # Nil THEN ErrCallFailed(a.err)
    ELSE IF ~a.res.present THEN ErrEmptyResponse
    ELSE IF a.res.StatusCode \in {200, StatusNoContent} THEN Nil
    ELSE IF a.res.StatusCode = StatusMultiStatus THEN ErrMultiStatus(a.res.Status)
    ELSE formatUnexpectedResponse(a.res)

ResultEmptyBodyIsEmptyResponse(a) ==
    IF a.err # Nil THEN ErrCallFailed(a.err)
    ELSE IF ~a.res.present \/ a.res.Body.kind = "empty" THEN ErrEmptyResponse
    ELSE IF a.res.StatusCode = StatusNoContent THEN Nil
    ELSE IF a.res.StatusCode = StatusMultiStatus THEN ErrMultiStatus(a.res.Status)
    ELSE formatUnexpectedResponse(a.res)

ResultErrorIgnoredWithResponse(a) ==
    IF a.err # Nil /\ ~a.res.present THEN ErrCallFailed(a.err)
    ELSE IF ~a.res.present THEN ErrEmptyResponse
    ELSE IF a.res.StatusCode = StatusNoContent THEN Nil
    ELSE IF a.res.StatusCode = StatusMultiStatus THEN ErrMultiStatus(a.res.Status)
    ELSE formatUnexpectedResponse(a.res)

\* What RankIssues returns once PutV1 has returned (res, err).
RankIssuesResult(a) ==
    IF a.err # Nil THEN ErrCallFailed(a.err)
    ELSE IF ~a.res.present THEN ErrEmptyResponse
    ELSE IF a.res.StatusCode = StatusNoContent THEN Nil
    ELSE IF a.res.StatusCode = StatusMultiStatus THEN ErrMultiStatus(a.res.Status)
    ELSE formatUnexpectedResponse(a.res)

\* ------------------------------------------------------------------------
\* The rank commands
\* ------------------------------------------------------------------------
\* strings.Split(s, ",") on the argument strings of the model.
Split(s) ==
    CASE s = "" -> <<"">>
      [] s = "TEST-1" -> <<"TEST-1">>
      [] s = "TEST-1,TEST-3" -> <<"TEST-1", "TEST-3">>
      [] s = "TEST-1,TEST-1" -> <<"TEST-1", "TEST-1">>
      [] s = "TEST-1," -> <<"TEST-1", "">>
      [] s = "TEST-1, " -> <<"TEST-1", " ">>

\* strings.TrimSpace on the strings of the model.
TrimSpace(s) ==
    CASE s = " " -> ""
      [] s = " TEST-4 " -> "TEST-4"
      [] OTHER -> s

RankArgs ==
    {<<>>, <<"">>, <<"TEST-1">>, <<"TEST-1,TEST-3">>, <<"TEST-1,TEST-1">>,
     <<"TEST-1,">>, <<"TEST-1, ">>}

\* A run of "jira issue rank <keys> --before b --after a"; clientErr is
\* whether obtaining the Jira client fails, debug is the value of --debug,
\* or "error" when the lookup of the flag fails.
RankCmdLines ==
    [name : {"rank"}, args : RankArgs,
     before : {"", " ", "TEST-4", " TEST-4 "}, after : {"", " ", "TEST-2"},
     position : {""}, clientErr : BOOLEAN, debug : {"false", "error"}]

\* A run of "jira issue rank KEY [KEY_AFTER] --position p".
PositionCmdLines ==
    [name : {"rankByPosition"},
     args : {<<>>, <<"TEST-1">>, <<"TEST-1", "2">>, <<"TEST-1", "">>,
             <<"TEST-1", "TEST-2", "TEST-3">>},
     before : {""}, after : {""},
     position : {"", "top", "bottom", "middle"}, clientErr : {FALSE},
     debug : {"false", "true", "error"}]

NoCmdLine ==
    [name |-> "", args |-> <<>>, before |-> "", after |-> "", position |-> "",
     clientErr |-> FALSE, debug |-> "false"]

\* What a command has put out: the lines printed on the way (log) and the
\* final report (fn, msg).
NoOutput == [fn |-> "", msg |-> <<>>, log |-> <<>>]
CmdFailed(m) == [fn |-> "Failed", msg |-> m, log |-> <<>>]
CmdSuccess(m) == [fn |-> "Success", msg |-> m, log |-> <<>>]
CmdHelp == [fn |-> "Help", msg |-> <<>>, log |-> <<>>]
CmdError(m) == [fn |-> "error", msg |-> m, log |-> <<>>]

ErrFlag == <<"flag accessed but not defined: debug">>

rankArgsErrorNoBlankCheck(c) ==
    IF Len(c.args) = 0
    THEN <<"Missing required argument: <ISSUE_KEY_OR_KEYS>">>
    ELSE IF c.args[1] = ""
    THEN <<"Target issue key(s) cannot be empty.">>
    ELSE IF Len(Split(c.args[1])) = 0
    THEN <<"No target issue keys provided.">>
    ELSE IF \E k \in Range(Split(c.args[1])) : TrimSpace(k) = ""
    THEN <<"One of the target issue keys is empty.">>
    ELSE IF c.before = "" /\ c.after = ""
    THEN <<"You must specify either --before or --after a reference issue.">>
    ELSE IF c.before # "" /\ c.after # ""
    THEN <<"You cannot specify both --before and --after.">>
    ELSE IF c.clientErr
    THEN <<"Failed to get Jira client: ", "client error">>
    ELSE <<>>

\* The message of the check that stops the before/after command before it
\* calls the client, <<>> when every check passes.
rankArgsError(c) ==
    IF Len(c.args) = 0
    THEN <<"Missing required argument: <ISSUE_KEY_OR_KEYS>">>
    ELSE IF c.args[1] = ""
    THEN <<"Target issue key(s) cannot be empty.">>
    ELSE IF Len(Split(c.args[1])) = 0
    THEN <<"No target issue keys provided.">>
    ELSE IF \E k \in Range(Split(c.args[1])) : TrimSpace(k) = ""
    THEN <<"One of the target issue keys is empty.">>
    ELSE IF c.before = "" /\ c.after = ""
    THEN <<"You must specify either --before or --after a reference issue.">>
    ELSE IF c.before # "" /\ c.after # ""
    THEN <<"You cannot specify both --before and --after.">>
    ELSE IF \/ (c.before # "" /\ TrimSpace(c.before) = "")
            \/ (c.after # "" /\ TrimSpace(c.after) = "")
    THEN <<"Reference issue key for --before or --after cannot be empty.">>
    ELSE IF c.clientErr
    THEN <<"Failed to get Jira client: ", "client error">>
    ELSE <<>>

\* The line the before/after command prints when the lookup of --debug
\* fails; it goes on with debug off. The lookup comes after the argument
\* and flag checks.
rankDebugLog(c) ==
    IF c.debug = "error" /\ rankArgsError([c EXCEPT !.clientErr = FALSE]) = <<>>
    THEN << <<"Failed to get debug mode: ">> \o ErrFlag \o <<"\n">> >>
    ELSE <<>>

\* The payload the before/after command builds.
rankPayload(c) ==
    [Issues |-> Split(c.args[1]),
     RankBeforeIssue |-> TrimSpace(c.before),
     RankAfterIssue |-> TrimSpace(c.after)]

\* What the before/after command reports for the error RankIssues returned.
rankReportAlwaysSuccess(e) == CmdSuccess(<<"Issue(s) ranked successfully.">>)

rankReport(e) ==
    IF e # Nil THEN CmdFailed(<<"Failed to rank issues: ">> \o e.msg)
    ELSE CmdSuccess(<<"Issue(s) ranked successfully.">>)

\* cmdutil.GetJiraIssueKey with project TEST: a bare number gets the project
\* prefix, anything else is upper-cased.
GetJiraIssueKey(k) ==
    CASE k = "2" -> "TEST-2"
      [] OTHER -> k

issueKeyAfterOf(c) ==
    IF Len(c.args) = 2 THEN GetJiraIssueKey(c.args[2]) ELSE ""

\* A variant without the check of --position against an after-issue.
positionErrorNoAfterCheck(c) ==
    IF c.position # "" /\ c.position # "top" /\ c.position # "bottom"
    THEN <<"invalid position: ", c.position,
           ". valid positions are 'top' or 'bottom'">>
    ELSE <<>>

\* The error the position command returns before it calls the client,
\* <<>> when there is none.
positionError(c) ==
    IF c.position # "" /\ c.position # "top" /\ c.position # "bottom"
    THEN <<"invalid position: ", c.position,
           ". valid positions are 'top' or 'bottom'">>
    ELSE IF c.position # "" /\ issueKeyAfterOf(c) # ""
    THEN <<"cannot use --position and specify an issue to rank after simultaneously">>
    ELSE <<>>

\* The RankInput the position command builds.
RankInputOf(c) ==
    [called |-> TRUE,
     Issues |-> <<GetJiraIssueKey(c.args[1])>>,
     RankAfterIssue |-> issueKeyAfterOf(c),
     RankFirst |-> (issueKeyAfterOf(c) = "" /\ c.position = "top")]

MarshalRankInputNoOmitEmpty(in) ==
    <<Member("issues", in.Issues),
      Member("rankAfterIssue", in.RankAfterIssue),
      Member("rankFirst", IF in.RankFirst THEN "true" ELSE "false")>>

\* json.Marshal of a RankInput: issues always, rankAfterIssue and rankFirst
\* only when not empty / not false (omitempty).
MarshalRankInput(in) ==
    <<Member("issues", in.Issues)>>
    \o (IF in.RankAfterIssue # ""
        THEN <<Member("rankAfterIssue", in.RankAfterIssue)>> ELSE <<>>)
    \o (IF in.RankFirst THEN <<Member("rankFirst", "true")>> ELSE <<>>)

\* client.Rank takes the RankInput and sends its JSON encoding as the body
\* of the rank request.
RankRequest(in) ==
    [called |-> in.called, Issues |-> in.Issues,
     RankAfterIssue |-> in.RankAfterIssue, RankFirst |-> in.RankFirst,
     body |-> MarshalRankInput(in)]

NoRankInput ==
    [called |-> FALSE, Issues |-> <<>>, RankAfterIssue |-> "", RankFirst |-> FALSE,
     body |-> <<>>]

\* What client.Rank can return.
RankResults == {Nil, TransportError}

\* ------------------------------------------------------------------------
\* The other client operations of the issue module
\* ------------------------------------------------------------------------
GetOps ==
    {"GetIssue", "GetIssueV2", "GetIssueRaw", "GetIssueV2Raw",
     "GetIssueLinkTypes", "GetField"}
NoContentOps ==
    {"AssignIssue", "AssignIssueV2", "UnlinkIssue", "WatchIssue", "WatchIssueV2"}
CreateOps == {"LinkIssue", "AddIssueComment", "AddIssueWorklog", "RemoteLinkIssue"}

OpNames == GetOps \cup NoContentOps \cup CreateOps

\* The status an operation compares res.StatusCode with.
SuccessCode(n) ==
    IF n \in GetOps THEN 200
    ELSE IF n \in NoContentOps THEN 204
    ELSE 201

\* The operations that decode the body of a successful response, and
\* whether the body decodes into what they expect: an Issue or a link-type
\* struct takes a JSON object, the field list takes a JSON array.
DecodesBody(n) == n \in {"GetIssue", "GetIssueV2", "GetIssueLinkTypes", "GetField"}

BodyDecodes(n, body) ==
    IF n = "GetField" THEN body.kind = "jsonArray" ELSE body.kind = "json"

\* The error of reading a body whose reader fails.
ErrRead == [type |-> "readError", msg |-> <<"read: connection reset by peer">>]

\* io.EOF, which a json.Decoder returns on an empty stream.
ErrEOF == [type |-> "EOF", msg |-> <<"EOF">>]

ErrJSON(text) == [type |-> "jsonError", msg |-> text]

\* The text of the model's text body and the first byte of a text, which
\* is the character json names in its syntax error.
TextOf(body) == IF body.kind = "text" THEN "Multi-status response body" ELSE ""

FirstByte(text) ==
    CASE text = "Multi-status response body" -> "M"
      [] OTHER -> ""

\* The Go type an operation decodes into, as json prints it.
GoTypeOf(n) ==
    CASE n \in {"GetIssue", "GetIssueV2"} -> "jira.Issue"
      [] n = "GetField" -> "[]*jira.Field"
      [] OTHER -> "struct { IssueLinkTypes []*jira.IssueLinkType \"json:\\\"issueLinkTypes\\\"\" }"

\* The error of decoding a body that does not decode: getIssue uses
\* json.Unmarshal on the text it has read, GetIssueLinkTypes and GetField
\* use a json.Decoder on the body.
DecodeError(n, body) ==
    IF body.kind = "empty"
    THEN IF n \in {"GetIssue", "GetIssueV2"}
         THEN ErrJSON(<<"unexpected end of JSON input">>)
         ELSE ErrEOF
    ELSE IF body.kind = "text"
    THEN ErrJSON(<<"invalid character '", FirstByte(TextOf(body)),
                   "' looking for beginning of value">>)
    ELSE ErrJSON(<<"json: cannot unmarshal ",
                   IF body.kind = "jsonArray" THEN "array" ELSE "object",
                   " into Go value of type ", GoTypeOf(n)>>)

\* What reading and decoding the body of a response with the success
\* status gives: the six Get operations read the body (io.Copy in
\* getIssueRaw, the decoder in the other two), four of them decode it.
BodyError(n, body) ==
    IF n \in GetOps /\ body.kind = "broken" THEN ErrRead
    ELSE IF DecodesBody(n) /\ ~BodyDecodes(n, body) THEN DecodeError(n, body)
    ELSE Nil

OpResultAny2xx(n, a) ==
    IF a.err # Nil THEN a.err
    ELSE IF ~a.res.present THEN ErrEmptyResponse
    ELSE IF a.res.StatusCode \notin 200..299 THEN formatUnexpectedResponse(a.res)
    ELSE BodyError(n, a.res.Body)

ErrNilDereference ==
    [type |-> "panic", msg |-> <<"invalid memory address or nil pointer dereference">>]

OpResultNoNilCheck(n, a) ==
    IF a.err # Nil THEN a.err
    ELSE IF ~a.res.present THEN ErrNilDereference
    ELSE IF a.res.StatusCode # SuccessCode(n) THEN formatUnexpectedResponse(a.res)
    ELSE BodyError(n, a.res.Body)

\* The error an operation returns for what its transport call returned.
OpResult(n, a) ==
    IF a.err # Nil THEN a.err
    ELSE IF ~a.res.present THEN ErrEmptyResponse
    ELSE IF a.res.StatusCode # SuccessCode(n) THEN formatUnexpectedResponse(a.res)
    ELSE BodyError(n, a.res.Body)

\* The parts of the response an operation reads: none when the transport
\* failed or returned no response; otherwise the status, and the body when
\* the status is unexpected or the operation copies or decodes the body.
OpReads(n, a) ==
    IF a.err # Nil \/ ~a.res.present THEN {}
    ELSE IF a.res.StatusCode # SuccessCode(n) \/ n \in GetOps
    THEN {"StatusCode", "Body"}
    ELSE {"StatusCode"}

AssigneeNone == "none"
AssigneeDefault == "default"

Assignees == {AssigneeNone, AssigneeDefault, "a12b3", ""}

\* JSON encoding of a *string.
JsonNull == [json |-> "null", s |-> ""]
JsonString(s) == [json |-> "string", s |-> s]

assigneeIDDefaultIsNone(assignee) ==
    IF assignee \in {AssigneeNone, AssigneeDefault} THEN JsonString("-1")
    ELSE JsonString(assignee)

\* The id assignIssue sends for an assignee argument.
assigneeID(assignee) ==
    IF assignee = AssigneeNone THEN JsonString("-1")
    ELSE IF assignee = AssigneeDefault THEN JsonNull
    ELSE JsonString(assignee)

NoRequest == [method |-> "", api |-> "", path |-> <<>>, body |-> <<>>]

\* The request assignIssue sends for issue TEST-1.
assignRequest(n, assignee) ==
    [method |-> "PUT",
     api |-> IF n = "AssignIssueV2" THEN "/rest/api/2" ELSE "/rest/api/3",
     path |-> <<"/issue/", "TEST-1", "/assignee">>,
     body |-> <<Member(IF n = "AssignIssueV2" THEN "name" ELSE "accountId",
                       assigneeID(assignee))>>]

\* md.ToJiraMD on the comments of the model: plain text is kept, markdown
\* bold becomes Jira bold.
ToJiraMD(s) ==
    CASE s = "**done**" -> "*done*"
      [] OTHER -> s

Starteds == {"", "2022-01-01T01:02:02.000+0200"}
NewEstimates == {"", "1d"}
WorklogComments == {"comment", "**done**"}

worklogRequestAlwaysStarted(started, timeSpent, comment, newEstimate) ==
    [method |-> "POST",
     api |-> "/rest/api/2",
     path |-> <<"/issue/", "TEST-1", "/worklog">>
              \o (IF newEstimate # ""
                  THEN <<"?adjustEstimate=new&newEstimate=", newEstimate>>
                  ELSE <<>>),
     body |-> <<Member("started", started), Member("timeSpent", timeSpent),
                Member("comment", ToJiraMD(comment))>>]

\* The request AddIssueWorklog sends for issue TEST-1: started is omitted
\* when empty, the estimate query is appended when newEstimate is given.
worklogRequest(started, timeSpent, comment, newEstimate) ==
    [method |-> "POST",
     api |-> "/rest/api/2",
     path |-> <<"/issue/", "TEST-1", "/worklog">>
              \o (IF newEstimate # ""
                  THEN <<"?adjustEstimate=new&newEstimate=", newEstimate>>
                  ELSE <<>>),
     body |-> (IF started # "" THEN <<Member("started", started)>> ELSE <<>>)
              \o <<Member("timeSpent", timeSpent),
                   Member("comment", ToJiraMD(comment))>>]

\* The parts of a decoded Issue the operations look at: the issue links,
\* the reported comment total and the number of comments present.
NilIssueRef == [nil |-> TRUE, Key |-> ""]
IssueRef(k) == [nil |-> FALSE, Key |-> k]

LinkedKeys == {"TEST-2", "TEST-3"}
IssueRefs == {NilIssueRef} \cup {IssueRef(k) : k \in LinkedKeys}

\* A link of the fetched issue names the other issue on one side only.
Links ==
    {l \in [ID : {"10001", "10002"}, InwardIssue : IssueRefs,
            OutwardIssue : IssueRefs] :
        l.InwardIssue.nil # l.OutwardIssue.nil}

LinkLists == UNION {[1..n -> Links] : n \in 0..MaxLinks}

ZeroIssue == [IssueLinks |-> <<>>, Total |-> 0, Comments |-> 0]

ErrNoLink == Errorf(<<"no link found between provided issues">>)

RECURSIVE scanLinksInwardOnly(_, _, _)
scanLinksInwardOnly(links, outwardIssue, k) ==
    IF k > Len(links) THEN [id |-> "", err |-> ErrNoLink]
    ELSE IF ~links[k].InwardIssue.nil /\ links[k].InwardIssue.Key = outwardIssue
    THEN [id |-> links[k].ID, err |-> Nil]
    ELSE scanLinksInwardOnly(links, outwardIssue, k + 1)

\* The loop of GetLinkID from link k on.
RECURSIVE scanLinks(_, _, _)
scanLinks(links, outwardIssue, k) ==
    IF k > Len(links) THEN [id |-> "", err |-> ErrNoLink]
    ELSE IF ~links[k].InwardIssue.nil /\ links[k].InwardIssue.Key = outwardIssue
    THEN [id |-> links[k].ID, err |-> Nil]
    ELSE IF ~links[k].OutwardIssue.nil /\ links[k].OutwardIssue.Key = outwardIssue
    THEN [id |-> links[k].ID, err |-> Nil]
    ELSE scanLinks(links, outwardIssue, k + 1)

\* GetLinkID for what GetIssueV2's transport call returned and the issue
\* its body decodes to.
GetLinkID(a, iss, outwardIssue) ==
    IF OpResult("GetIssueV2", a) # Nil
    THEN [id |-> "", err |-> OpResult("GetIssueV2", a)]
    ELSE scanLinks(iss.IssueLinks, outwardIssue, 1)

\* strconv.Itoa on the numbers of the model.
Itoa(n) ==
    CASE n = 0 -> "0" [] n = 1 -> "1" [] n = 2 -> "2" [] n = 3 -> "3"
      [] n = 4 -> "4" [] n = 5 -> "5" [] n = 6 -> "6" [] n = 7 -> "7"
      [] n = 8 -> "8" [] n = 9 -> "9"

\* The run-time panic of indexing a slice of length len at i.
ErrIndexOutOfRange(i, len) ==
    [type |-> "panic",
     msg |-> IF i < 0
             THEN <<"runtime error: index out of range [-", Itoa(0 - i), "]">>
             ELSE <<"runtime error: index out of range [", Itoa(i),
                    "] with length ", Itoa(len)>>]

\* The comment loop of GetIssue at index i (0-based), down to index low:
\* the indexes it has used so far and whether it ran off the list.
RECURSIVE commentLoop(_, _, _, _)
commentLoop(i, low, len, used) ==
    IF i < low THEN [used |-> used, err |-> Nil]
    ELSE IF i < 0 \/ i >= len
    THEN [used |-> Append(used, i), err |-> ErrIndexOutOfRange(i, len)]
    ELSE commentLoop(i - 1, low, len, Append(used, i))

\* GetIssue after a successful fetch: the limit is capped by the reported
\* total, then the loop runs from total-1 down to total-limit.
convertComments(iss, numComments) ==
    LET total == iss.Total
        limit == IF numComments > total THEN total ELSE numComments
    IN  commentLoop(total - 1, total - limit, iss.Comments, <<>>)

\* The arguments an operation is called with (those it does not take are
\* left at their zero value).
NoArgs ==
    [assignee |-> "", started |-> "", newEstimate |-> "", comment |-> "",
     outwardIssue |-> "", numComments |-> 0]

OpArgs(n) ==
    CASE n \in {"AssignIssue", "AssignIssueV2"} ->
           {[NoArgs EXCEPT !.assignee = s] : s \in Assignees}
      [] n = "AddIssueWorklog" ->
           {[NoArgs EXCEPT !.started = s, !.newEstimate = e, !.comment = c] :
               s \in Starteds, e \in NewEstimates, c \in WorklogComments}
      [] n = "GetLinkID" ->
           {[NoArgs EXCEPT !.outwardIssue = k] : k \in {"TEST-2", "TEST-1234"}}
      [] n = "GetIssue" ->
           {[NoArgs EXCEPT !.numComments = l] : l \in -1..MaxComments + 1}
      [] OTHER -> {NoArgs}

\* The issues the body of a response can decode to, as far as operation n
\* looks at them: only an issue object carries links and comments.
IssuesOf(n, a) ==
    IF a.err = Nil /\ a.res.present /\ a.res.StatusCode = 200
       /\ a.res.Body = JsonObjectBody
    THEN CASE n = "GetLinkID" ->
                {[ZeroIssue EXCEPT !.IssueLinks = l] : l \in LinkLists}
           [] n = "GetIssue" ->
                {[ZeroIssue EXCEPT !.Total = t, !.Comments = c] :
                    t \in -1..MaxComments + 1, c \in 0..MaxComments}
           [] OTHER -> {ZeroIssue}
    ELSE {ZeroIssue}

AllOps == OpNames \cup {"GetLinkID"}

\* The request an operation sends, for the operations whose request the
\* model records.
OpRequest(n, x) ==
    CASE n \in {"AssignIssue", "AssignIssueV2"} -> assignRequest(n, x.assignee)
      [] n = "AddIssueWorklog" ->
           worklogRequest(x.started, "1h", x.comment, x.newEstimate)
      [] OTHER -> NoRequest

\* What an operation returns: the error, and for GetLinkID the link id,
\* for GetIssue the comment indexes its loop used.
OpOutcome(n, x, a, iss) ==
    CASE n = "GetLinkID" ->
           [err |-> GetLinkID(a, iss, x.outwardIssue).err,
            id |-> GetLinkID(a, iss, x.outwardIssue).id, used |-> <<>>]
      [] n = "GetIssue" /\ OpResult(n, a) = Nil ->
           [err |-> convertComments(iss, x.numComments).err,
            id |-> "", used |-> convertComments(iss, x.numComments).used]
      [] OTHER -> [err |-> OpResult(n, a), id |-> "", used |-> <<>>]

NoOp ==
    [pc |-> "idle", name |-> "", assignee |-> "", request |-> NoRequest,
     answer |-> NoAnswer, err |-> Nil, args |-> NoArgs, issue |-> ZeroIssue, id |-> "", used |-> <<>>,
     read |-> {}]

\* ------------------------------------------------------------------------
\* State
\* ------------------------------------------------------------------------
VARIABLES
    pc,       \* position of the current RankIssues invocation
    instr,    \* the caller's instruction of the current invocation
    payload,  \* the IssueRankPayload RankIssues was called with
    wire,     \* the requests the current invocation has sent
    answer,   \* what PutV1 returned to the current invocation
    err,      \* the error RankIssues returned (Nil: success)
    calls,    \* invocations started so far
    puts,     \* PUT requests sent so far, over all invocations
    cmd,      \* position of the rank command: "none", "running", "exited"
    cmdline,  \* the arguments and flags the command was run with
    out,      \* what the command reported (cmdutil.Failed / Success / ...)
    rankInput, \* the RankInput handed to client.Rank and the body sent for it
    op        \* the last other client operation: request, answer, result

coreVars == <<pc, instr, payload, wire, answer, err, calls, puts>>
cmdVars == <<cmd, cmdline, out, rankInput>>
vars == <<pc, instr, payload, wire, answer, err, calls, puts,
          cmd, cmdline, out, rankInput, op>>

Init ==
    /\ pc = "idle"
    /\ instr = NoInstruction
    /\ payload = IssueRankPayload(NoInstruction)
    /\ wire = <<>>
    /\ answer = NoAnswer
    /\ err = Nil
    /\ calls = 0
    /\ puts = 0
    /\ cmd = "none"
    /\ cmdline = NoCmdLine
    /\ out = NoOutput
    /\ rankInput = NoRankInput
    /\ op = NoOp

\* A variant that marshals and sends before it validates.
RankIssuesCallSendsFirst(i) ==
    LET p == IssueRankPayload(i)
        v == Validate(p)
    IN
    /\ pc = "idle"
    /\ calls < MaxCalls
    /\ instr' = i
    /\ payload' = p
    /\ calls' = calls + 1
    /\ answer' = NoAnswer
    /\ pc' = "dispatched"
    /\ err' = v
    /\ wire' = <<PutV1(Marshal(p))>>
    /\ puts' = puts + 1

\* RankIssues up to and including the call of PutV1: validation, marshal,
\* send.
RankIssuesCall(i) ==
    LET p == IssueRankPayload(i)
        v == Validate(p)
    IN
    /\ pc = "idle"
    /\ calls < MaxCalls
    /\ instr' = i
    /\ payload' = p
    /\ calls' = calls + 1
    /\ answer' = NoAnswer
    /\ IF v # Nil
       THEN /\ pc' = "done"
            /\ err' = v
            /\ wire' = <<>>
            /\ puts' = puts
       ELSE /\ pc' = "dispatched"
            /\ err' = Nil
            /\ wire' = <<PutV1(Marshal(p))>>
            /\ puts' = puts + 1

\* A variant that sends the request again after a 207.
RankIssuesReturnRetry(a) ==
    /\ pc = "dispatched"
    /\ answer' = a
    /\ err' = RankIssuesResult(a)
    /\ IF a.err = Nil /\ a.res.present /\ a.res.StatusCode = StatusMultiStatus
       THEN /\ pc' = "dispatched"
            /\ wire' = Append(wire, PutV1(Marshal(payload)))
            /\ puts' = puts + 1
       ELSE /\ pc' = "done"
            /\ UNCHANGED <<wire, puts>>
    /\ UNCHANGED <<instr, payload, calls>>
    /\ UNCHANGED cmdVars
    /\ UNCHANGED op

\* PutV1 returns and RankIssues maps what it got to its result.
RankIssuesReturn(a) ==
    /\ pc = "dispatched"
    /\ answer' = a
    /\ err' = RankIssuesResult(a)
    /\ pc' = "done"
    /\ UNCHANGED <<instr, payload, wire, calls, puts>>
    /\ UNCHANGED cmdVars
    /\ UNCHANGED op

\* The core of an invocation is over: its state is dropped.
Reset ==
    /\ pc' = "idle"
    /\ instr' = NoInstruction
    /\ payload' = IssueRankPayload(NoInstruction)
    /\ wire' = <<>>
    /\ answer' = NoAnswer
    /\ err' = Nil
    /\ UNCHANGED <<calls, puts>>

\* RankIssues called directly with any payload, as the package's tests do.
ClientCall(i) ==
    /\ cmd = "none"
    /\ op = NoOp
    /\ UNCHANGED op
    /\ RankIssuesCall(i)
    /\ UNCHANGED cmdVars

\* The before/after command up to the point where it waits in RankIssues:
\* its argument and flag checks, then the client call.
rank(c) ==
    /\ cmd = "none"
    /\ op = NoOp
    /\ UNCHANGED op
    /\ pc = "idle"
    /\ calls < MaxCalls
    /\ cmdline' = c
    /\ rankInput' = rankInput
    /\ IF rankArgsError(c) # <<>>
       THEN /\ out' = [CmdFailed(rankArgsError(c)) EXCEPT !.log = rankDebugLog(c)]
            /\ cmd' = "exited"
            /\ UNCHANGED coreVars
       ELSE /\ out' = [NoOutput EXCEPT !.log = rankDebugLog(c)]
            /\ cmd' = "running"
            /\ RankIssuesCall(rankPayload(c))

\* RankIssues has returned to the before/after command, which reports.
rankRender ==
    /\ cmd = "running"
    /\ UNCHANGED op
    /\ pc = "done"
    /\ out' = [rankReport(err) EXCEPT !.log = out.log]
    /\ cmd' = "exited"
    /\ UNCHANGED <<cmdline, rankInput>>
    /\ UNCHANGED coreVars

\* The position command up to the point where it waits in client.Rank:
\* the help text or an error for bad arguments, a bad --position or a
\* failed lookup of --debug; otherwise it prints the issue, starts the
\* spinner, builds the RankInput and calls the client.
rankByPosition(c) ==
    /\ cmd = "none"
    /\ op = NoOp
    /\ UNCHANGED op
    /\ pc = "idle"
    /\ cmdline' = c
    /\ IF Len(c.args) = 0 \/ Len(c.args) > 2
       THEN out' = CmdHelp /\ rankInput' = NoRankInput /\ cmd' = "exited"
       ELSE IF positionError(c) # <<>>
       THEN /\ out' = CmdError(positionError(c))
            /\ rankInput' = NoRankInput
            /\ cmd' = "exited"
       ELSE IF c.debug = "error"
       THEN /\ out' = CmdError(ErrFlag)
            /\ rankInput' = NoRankInput
            /\ cmd' = "exited"
       ELSE /\ out' = [NoOutput EXCEPT
                          !.log = << <<"Ranking issue ",
                                       GetJiraIssueKey(c.args[1]), "\n">>,
                                     <<"Ranking issue...">> >>]
            /\ rankInput' = RankRequest(RankInputOf(c))
            /\ cmd' = "ranking"
    /\ UNCHANGED coreVars

\* client.Rank returns r to the position command, which reports: the
\* error, or the debug line (with --debug) and the success message.
rankByPositionReturn(r) ==
    /\ cmd = "ranking"
    /\ cmd' = "exited"
    /\ out' = IF r # Nil
              THEN [CmdError(r.msg) EXCEPT !.log = out.log]
              ELSE [CmdSuccess(<<"Issue ", rankInput.Issues[1],
                                 " ranked successfully.\n">>)
                    EXCEPT !.log =
                        IF cmdline.debug = "true"
                        THEN Append(out.log,
                                    <<"DEBUG: Successfully sent rank request for issue ",
                                      rankInput.Issues[1], "\n">>)
                        ELSE out.log]
    /\ UNCHANGED <<cmdline, rankInput>>
    /\ UNCHANGED coreVars
    /\ UNCHANGED op


\* The command's process ends.
CmdExit ==
    /\ cmd = "exited"
    /\ UNCHANGED op
    /\ cmd' = "none"
    /\ cmdline' = NoCmdLine
    /\ out' = NoOutput
    /\ rankInput' = NoRankInput
    /\ IF pc = "idle" THEN UNCHANGED coreVars ELSE Reset

\* One of the other client operations up to its transport call: the
\* request is built and sent, the method waits for the answer. A command
\* makes one client call at a time, so no other call runs meanwhile.
OpCall(n, x) ==
    /\ pc = "idle"
    /\ cmd = "none"
    /\ op = NoOp
    /\ op' = [NoOp EXCEPT !.pc = "sent",
                          !.name = n,
                          !.args = x,
                          !.assignee = x.assignee,
                          !.request = OpRequest(n, x)]
    /\ UNCHANGED coreVars
    /\ UNCHANGED cmdVars

\* The transport call returns a and the operation maps it to its result;
\* iss is the issue the body decodes to.
OpReturn(a, iss) ==
    /\ op.pc = "sent"
    /\ iss \in IssuesOf(op.name, a)
    /\ op' = [op EXCEPT !.pc = "done",
                        !.answer = a,
                        !.issue = iss,
                        !.err = OpOutcome(op.name, op.args, a, iss).err,
                        !.id = OpOutcome(op.name, op.args, a, iss).id,
                        !.used = OpOutcome(op.name, op.args, a, iss).used,
                        !.read = OpReads(IF op.name = "GetLinkID"
                                         THEN "GetIssueV2" ELSE op.name, a)]
    /\ UNCHANGED coreVars
    /\ UNCHANGED cmdVars

\* The operation's caller has the result.
OpDone ==
    /\ op.pc = "done"
    /\ op' = NoOp
    /\ UNCHANGED coreVars
    /\ UNCHANGED cmdVars

\* The caller has the result; the instruction is discarded.
Discard ==
    /\ cmd = "none"
    /\ UNCHANGED cmdVars
    /\ UNCHANGED op
    /\ pc = "done"
    /\ pc' = "idle"
    /\ instr' = NoInstruction
    /\ payload' = IssueRankPayload(NoInstruction)
    /\ wire' = <<>>
    /\ answer' = NoAnswer
    /\ err' = Nil
    /\ UNCHANGED <<calls, puts>>

Next ==
    \/ \E i \in Instructions : ClientCall(i)
    \/ \E a \in Answers : RankIssuesReturn(a)
    \/ Discard
    \/ \E c \in RankCmdLines : rank(c)
    \/ rankRender
    \/ \E c \in PositionCmdLines : rankByPosition(c)
    \/ \E r \in RankResults : rankByPositionReturn(r)
    \/ CmdExit
    \/ \E n \in AllOps : \E x \in OpArgs(n) : OpCall(n, x)
    \/ \E a \in Answers : \E iss \in IssuesOf(op.name, a) : OpReturn(a, iss)
    \/ OpDone

Spec == Init /\ [][Next]_vars

TypeOK ==
    /\ pc \in {"idle", "dispatched", "done"}
    /\ instr \in Instructions
    /\ payload = IssueRankPayload(instr)
    /\ answer \in Answers
    /\ calls \in 0..MaxCalls
    /\ puts \in 0..MaxCalls
    /\ cmd \in {"none", "running", "ranking", "exited"}
    /\ cmdline \in RankCmdLines \cup PositionCmdLines \cup {NoCmdLine}
    /\ out.fn \in {"", "Failed", "Success", "Help", "error"}
    /\ rankInput.called \in BOOLEAN
    /\ op.name \in AllOps \cup {""}
    /\ op.pc \in {"idle", "sent", "done"}

\* ------------------------------------------------------------------------
\* Properties
\* ------------------------------------------------------------------------
Called == pc # "idle"

\* PutV1 has returned to the current invocation and RankIssues has returned.
Answered == pc = "done" /\ wire # <<>>

\* PutV1 returned a response object and no error.
GotResponse == Answered /\ answer.err = Nil /\ answer.res.present

ValidationErrors == {ErrNoIssues, ErrNoReference, ErrBothReferences}

BothUnset(p) == p.RankBeforeIssue = "" /\ p.RankAfterIssue = ""
BothSet(p) == p.RankBeforeIssue # "" /\ p.RankAfterIssue # ""

\* C1: a call with a non-empty issue list and neither or both references set
\* has returned a validation error and has sent no PUT.
C1_BadReferenceRejected ==
    (Called /\ Len(payload.Issues) > 0 /\ (BothUnset(payload) \/ BothSet(payload)))
        => /\ pc = "done"
           /\ err \in {ErrNoReference, ErrBothReferences}
           /\ wire = <<>>

C1_Witness ==
    /\ pc = "done"
    /\ Len(payload.Issues) > 0
    /\ BothSet(payload)
    /\ err = ErrBothReferences
    /\ wire = <<>>

\* C2: a call with an empty issue list has returned "no issues provided to
\* rank" and has sent no request, whatever the references are.
C2_EmptyIssuesRejected ==
    (Called /\ Len(payload.Issues) = 0)
        => /\ pc = "done"
           /\ err = ErrNoIssues
           /\ wire = <<>>

C2_Witness ==
    /\ pc = "done"
    /\ payload.Issues = <<>>
    /\ BothUnset(payload)
    /\ err = ErrNoIssues
    /\ wire = <<>>

\* C3: an invocation sends at most one PUT (so PUTs never outnumber
\* invocations), and once the request is out no step of the invocation,
\* whatever PutV1 returned, sends another.
NoResend ==
    pc \in {"dispatched", "done"}
        => (puts' = puts /\ pc' # "dispatched" /\ wire' \in {wire, <<>>})

C3_NoRetry ==
    [](Len(wire) <= 1 /\ puts <= calls) /\ [][NoResend]_vars

C3_Witness ==
    /\ GotResponse
    /\ answer.res.StatusCode = StatusMultiStatus
    /\ err # Nil
    /\ Len(wire) = 1
    /\ calls = 2
    /\ puts = 1

\* C4: a 204 response gives success, whatever its body.
C4_NoContentIsSuccess ==
    (GotResponse /\ answer.res.StatusCode = 204) => err = Nil

C4_Witness ==
    /\ GotResponse
    /\ answer.res.StatusCode = 204
    /\ answer.res.Body = JsonErrorsBody
    /\ err = Nil

\* C5: a 207 response gives the multi-status error, whose message ends with
\* "207 Multi-Status" and is the same for every body; never success, never
\* the unexpected-response error.
C5_MultiStatusIsPartialFailure ==
    (GotResponse /\ answer.res.StatusCode = 207)
        => /\ err = Errorf(<<"rank issues operation resulted in multi-status (some may have failed): ",
                             "207 Multi-Status">>)
           /\ Contains(err.msg, <<"207 Multi-Status">>)
           /\ err # Nil
           /\ err.type # "ErrUnexpectedResponse"

C5_Witness ==
    /\ GotResponse
    /\ answer.res.StatusCode = 207
    /\ answer.res.Body = JsonErrorsBody
    /\ Contains(err.msg, <<"207 Multi-Status">>)

\* C6: a response that is neither 204 nor 207 gives an unexpected-response
\* failure whose message embeds the status line and, when the body parses,
\* every top-level error message and every per-field error of the body.
C6_OtherStatusIsFailure ==
    (GotResponse /\ answer.res.StatusCode \notin {204, 207})
        => /\ err.type = "ErrUnexpectedResponse"
           /\ Contains(err.msg, <<answer.res.Status>>)
           /\ answer.res.Body.kind = "json"
                => /\ \A m \in Range(answer.res.Body.errorMessages) :
                          Contains(err.msg, <<m>>)
                   /\ \A e \in Range(answer.res.Body.errors) :
                          Contains(err.msg, <<e[2]>>)

C6_Witness ==
    /\ GotResponse
    /\ answer.res.StatusCode = 400
    /\ answer.res.Body = JsonErrorsBody
    /\ Contains(err.msg, <<"Request failed">>)
    /\ Contains(err.msg, <<"Some issue with a field">>)
    /\ Contains(err.msg, <<"400 Bad Request">>)

\* C7: 200 with an empty body is an unexpected-response failure saying
\* "200 OK with empty body", and no 2xx status other than 204 is a success.
C7_OkEmptyBodyIsFailure ==
    /\ (GotResponse /\ answer.res.StatusCode = 200 /\ answer.res.Body.kind = "empty")
          => /\ err.type = "ErrUnexpectedResponse"
             /\ Contains(err.msg, <<"200 OK", " with empty body">>)
    /\ (GotResponse /\ answer.res.StatusCode \in 200..299
                    /\ answer.res.StatusCode # 204)
          => err # Nil

C7_Witness ==
    /\ GotResponse
    /\ answer.res.StatusCode = 200
    /\ answer.res.Body = EmptyBody
    /\ err.type = "ErrUnexpectedResponse"

\* C8: no response and no error gives ErrEmptyResponse, and a response that
\* exists never does, an empty body included.
C8_EmptyResponseDistinct ==
    /\ (Answered /\ answer.err = Nil /\ ~answer.res.present)
          => err = ErrEmptyResponse
    /\ (Answered /\ answer.res.present) => err # ErrEmptyResponse

C8_Witness ==
    /\ Answered
    /\ answer.err = Nil
    /\ ~answer.res.present
    /\ err = ErrEmptyResponse

\* The fields of a sent body that belong to a reference mode.
ModeFields(m) ==
    CASE m = "before" -> {"issues", "rankBeforeIssue"}
      [] m = "after" -> {"issues", "rankAfterIssue"}
      [] m = "first" -> {"issues", "rankFirst"}

\* The position command's client.Rank call has returned without an error
\* of validation: it succeeded or the transport failed.
RankNotRejected ==
    cmd = "exited" =>
        \/ out.fn = "Success"
        \/ out.fn = "error" /\ out.msg = TransportError.msg

C10_SentBodyShape ==
    \A n \in 1..Len(wire) :
        LET body == wire[n].body IN
        /\ "issues" \in Keys(body)
        /\ ("rankBeforeIssue" \in Keys(body)) # ("rankAfterIssue" \in Keys(body))
        /\ \A k \in 1..Len(body) :
              body[k].key \in {"rankBeforeIssue", "rankAfterIssue"}
                  => body[k].value # ""
        /\ \A j, k \in 1..Len(body) : body[j].key = body[k].key => j = k

C10_Witness ==
    /\ Len(wire) = 1
    /\ payload.RankAfterIssue = "TEST-2"
    /\ payload.RankBeforeIssue = ""
    /\ Keys(wire[1].body) = {"issues", "rankAfterIssue"}


\* C11: every body sent is exactly the issues member holding the caller's
\* issue list, in order, followed by the one reference member holding the
\* caller's reference; decoding it gives back the payload; issues
\* ["TEST-1"] after "TEST-2" gives {"issues":["TEST-1"],"rankAfterIssue":"TEST-2"}.
C11_BodyCarriesInstruction ==
    \A n \in 1..Len(wire) :
        LET body == wire[n].body IN
        /\ Len(body) = 2
        /\ body[1] = Member("issues", instr.Issues)
        /\ body[2] = IF instr.RankBeforeIssue # ""
                     THEN Member("rankBeforeIssue", instr.RankBeforeIssue)
                     ELSE Member("rankAfterIssue", instr.RankAfterIssue)
        /\ Unmarshal(body) = IssueRankPayload(instr)
        /\ (instr.Issues = <<"TEST-1">> /\ instr.RankAfterIssue = "TEST-2")
              => body = <<Member("issues", <<"TEST-1">>),
                          Member("rankAfterIssue", "TEST-2")>>

C11_Witness ==
    /\ Len(wire) = 1
    /\ instr.Issues = <<"TEST-1">>
    /\ instr.RankAfterIssue = "TEST-2"
    /\ "rankBeforeIssue" \notin Keys(wire[1].body)
    /\ Unmarshal(wire[1].body) = payload


\* The outcome states of an invocation, read off what RankIssues returned.
Succeeded == Answered /\ err = Nil

PartiallyFailed ==
    /\ Answered
    /\ err.type = "errorString"
    /\ Contains(err.msg,
          <<"rank issues operation resulted in multi-status (some may have failed): ">>)

Failed ==
    /\ Answered
    /\ err.type \in {"wrapError", "ErrEmptyResponse", "ErrUnexpectedResponse"}

\* The payload is one that the builder lets through.
Built(p) ==
    /\ Len(p.Issues) > 0
    /\ (p.RankBeforeIssue = "") # (p.RankAfterIssue = "")

LifecycleStep ==
    /\ (pc' = "dispatched" /\ pc # "dispatched")
          => (pc = "idle" /\ Built(payload') /\ Len(wire') = 1)
    /\ (Answered' /\ ~Answered) => pc = "dispatched"
    /\ pc = "dispatched" => (pc' = "dispatched" \/ Answered')
    /\ Answered => \/ UNCHANGED <<pc, payload, wire, answer, err>>
                   \/ (pc' = "idle" /\ wire' = <<>>)

ExactlyOneOutcome ==
    Answered => Cardinality({o \in {"Succeeded", "PartiallyFailed", "Failed"} :
                                \/ o = "Succeeded" /\ Succeeded
                                \/ o = "PartiallyFailed" /\ PartiallyFailed
                                \/ o = "Failed" /\ Failed}) = 1

\* A dispatched invocation waits for nothing but the return of PutV1:
\* whatever PutV1 returns, RankIssues can take it and end.
EndsOnAnyReturn ==
    pc = "dispatched" => \A a \in Answers : ENABLED RankIssuesReturn(a)

C13_Original ==
    (Answered /\ answer.err # Nil) => err = answer.err

\* C13 (amended): when PutV1 returns an error, RankIssues returns an error
\* that wraps it: the transport error's message, unchanged, behind the
\* prefix "failed to call rank issues API: "; this holds whether or not a
\* response came with the error, and nothing is sent again.
C13_TransportErrorWrapped ==
    (Answered /\ answer.err # Nil)
        => /\ err.type = "wrapError"
           /\ err.msg = <<"failed to call rank issues API: ">> \o answer.err.msg
           /\ Len(wire) = 1

C13_Witness ==
    /\ Answered
    /\ answer.err = TransportError
    /\ answer.res.present
    /\ err.msg = <<"failed to call rank issues API: ", "context deadline exceeded">>

\* C14: every request sent is a PUT to /issue/rank of the agile 1.0 API
\* with Accept and Content-Type both application/json.
C14_RequestShape ==
    \A n \in 1..Len(wire) :
        /\ wire[n].method = "PUT"
        /\ wire[n].api = "/rest/agile/1.0"
        /\ wire[n].path = "/issue/rank"
        /\ wire[n].Accept = "application/json"
        /\ wire[n].ContentType = "application/json"

C14_Witness ==
    /\ pc = "dispatched"
    /\ Len(wire) = 1
    /\ wire[1].method = "PUT"
    /\ wire[1].path = "/issue/rank"

NoDuplicates(s) == \A j, k \in 1..Len(s) : s[j] = s[k] => j = k

\* C16 as stated: every dispatched instruction has a non-empty issue list
\* without duplicate identifiers and exactly one reference set.
C16_Original ==
    wire # <<>>
        => /\ Len(payload.Issues) > 0
           /\ NoDuplicates(payload.Issues)
           /\ (payload.RankBeforeIssue = "") # (payload.RankAfterIssue = "")

\* C16 (amended): every dispatched instruction has a non-empty issue list
\* and exactly one reference set; the list may name an issue twice.
C16_DispatchedInstruction ==
    wire # <<>>
        => /\ Len(payload.Issues) > 0
           /\ (payload.RankBeforeIssue = "") # (payload.RankAfterIssue = "")

C16_Witness ==
    /\ cmd = "running"
    /\ pc = "dispatched"
    /\ cmdline.args = <<"TEST-1,TEST-1">>
    /\ payload.Issues = <<"TEST-1", "TEST-1">>
    /\ wire[1].body[1] = Member("issues", <<"TEST-1", "TEST-1">>)

\* The position command was given an invalid --position, or --position
\* together with an issue to rank after.
BadPosition ==
    \/ cmdline.position \notin {"", "top", "bottom"}
    \/ (cmdline.position # "" /\ Len(cmdline.args) = 2 /\ cmdline.args[2] # "")

\* C17: the RankInput the position command hands to the client never has
\* both RankAfterIssue and RankFirst, and a run with an invalid --position
\* or with --position and an after-issue ends with an error (or the help
\* text, when the argument count is wrong) without a client call.
C17_PositionInput ==
    cmdline.name = "rankByPosition"
        => /\ rankInput.called
                => ~(rankInput.RankAfterIssue # "" /\ rankInput.RankFirst)
           /\ BadPosition
                => /\ ~rankInput.called
                   /\ out.fn \in {"error", "Help"}
                   /\ Len(cmdline.args) \in {1, 2} => out.fn = "error"

C17_Witness ==
    /\ cmdline.name = "rankByPosition"
    /\ cmdline.position = "top"
    /\ rankInput.called
    /\ rankInput.RankFirst
    /\ rankInput.RankAfterIssue = ""
    /\ out.fn = "Success"

RenderedFaithfully ==
    cmdline.name = "rank"
        => /\ out.fn = "Success"
                => /\ pc = "done"
                   /\ err = Nil
                   /\ out.msg = <<"Issue(s) ranked successfully.">>
           /\ (cmd = "exited" /\ pc = "done")
                => /\ err = Nil => out.fn = "Success"
                   /\ err # Nil
                        => /\ out.fn = "Failed"
                           /\ out.msg = <<"Failed to rank issues: ">> \o err.msg

NoSuccessAfterFailure == out.fn = "Failed" => out'.fn # "Success"

\* C18: the before/after command reports success only when RankIssues
\* returned no error; when RankIssues returned an error it reports failure
\* with that error's message, and a run that reported failure does not
\* report success.
C18_OutcomeRendered ==
    []RenderedFaithfully /\ [][NoSuccessAfterFailure]_vars

C18_Witness ==
    /\ cmdline.name = "rank"
    /\ cmd = "exited"
    /\ PartiallyFailed
    /\ out.fn = "Failed"
    /\ Contains(out.msg, <<"207 Multi-Status">>)


\* An operation has sent its request.
OpSent == op.pc # "idle"

\* An operation has run and its result is in op.
OpRan == op.pc = "done"

\* A response arrived for the operation (no transport error, not nil).
OpGotResponse ==
    OpRan /\ op.name \in OpNames /\ op.answer.err = Nil /\ op.answer.res.present

OpUnexpected == Contains(op.err.msg, <<"unexpected response: ">>)

\* C19 as stated: each of the fifteen operations succeeds exactly when the
\* response status equals its single success code, and returns an
\* unexpected-response error for every other status.
C19_Original ==
    OpGotResponse =>
        /\ op.err = Nil <=> op.answer.res.StatusCode = SuccessCode(op.name)
        /\ op.answer.res.StatusCode # SuccessCode(op.name) => OpUnexpected

\* C19: with a response in hand, an operation returns an unexpected-response
\* error exactly when the status differs from its success code (200 for
\* the six Get operations, 204 for assign, unlink and watch, 201 for link,
\* comment, worklog and remote link). With the success code, the nine
\* operations that do not read the body succeed; the raw fetches succeed
\* unless reading the body fails; GetIssue, GetIssueV2, GetIssueLinkTypes
\* and GetField succeed only if the body is read and decodes, and return
\* the read or decoding error otherwise (io.EOF for an empty body in
\* GetIssueLinkTypes and GetField).
C19_SuccessCodes ==
    OpGotResponse =>
        LET code == op.answer.res.StatusCode
            kind == op.answer.res.Body.kind
            want == CASE op.name \in {"GetIssue", "GetIssueV2", "GetIssueRaw",
                                      "GetIssueV2Raw", "GetIssueLinkTypes",
                                      "GetField"} -> 200
                      [] op.name \in {"AssignIssue", "AssignIssueV2",
                                      "UnlinkIssue", "WatchIssue",
                                      "WatchIssueV2"} -> 204
                      [] op.name \in {"LinkIssue", "AddIssueComment",
                                      "AddIssueWorklog", "RemoteLinkIssue"} -> 201
            decodes == op.name \in {"GetIssue", "GetIssueV2",
                                    "GetIssueLinkTypes", "GetField"}
            raw == op.name \in {"GetIssueRaw", "GetIssueV2Raw"}
        IN  /\ OpUnexpected <=> code # want
            /\ code # want => op.err = formatUnexpectedResponse(op.answer.res)
            /\ code = want /\ ~decodes /\ ~raw => op.err = Nil
            /\ code = want /\ raw => (op.err = Nil <=> kind # "broken")
            /\ code = want /\ (raw \/ decodes) /\ kind = "broken" =>
                   op.err.type = "readError"
            /\ code = want /\ decodes /\ op.name # "GetIssue" =>
                   \/ op.err = Nil
                   \/ op.err.type \in {"jsonError", "EOF", "readError"}
            /\ code = want /\ decodes /\ kind = "text" => op.err.type = "jsonError"
            /\ code = want /\ kind = "empty"
                    /\ op.name \in {"GetIssueLinkTypes", "GetField"} =>
                   op.err.msg = <<"EOF">>
            /\ code = want /\ kind = "empty"
                    /\ op.name \in {"GetIssue", "GetIssueV2"} =>
                   op.err.msg = <<"unexpected end of JSON input">>

\* GetField got 200 with an empty body and returned io.EOF.
C19_Witness ==
    /\ OpGotResponse
    /\ op.name = "GetField"
    /\ op.answer.res.StatusCode = 200
    /\ op.answer.res.Body = EmptyBody
    /\ op.err.msg = <<"EOF">>

\* C20: AssignIssue and AssignIssueV2 send PUT /issue/{key}/assignee with a
\* one-member body: the member is accountId for AssignIssue and name for
\* AssignIssueV2, and its value is "-1" for "none", JSON null for
\* "default", and the assignee argument itself otherwise.
C20_AssignBody ==
    OpSent /\ op.name \in {"AssignIssue", "AssignIssueV2"} =>
        LET id == CASE op.assignee = "none" -> [json |-> "string", s |-> "-1"]
                    [] op.assignee = "default" -> [json |-> "null", s |-> ""]
                    [] OTHER -> [json |-> "string", s |-> op.assignee]
            key == IF op.name = "AssignIssue" THEN "accountId" ELSE "name"
            api == IF op.name = "AssignIssue" THEN "/rest/api/3" ELSE "/rest/api/2"
        IN  /\ op.request.method = "PUT"
            /\ op.request.api = api
            /\ op.request.path = <<"/issue/", "TEST-1", "/assignee">>
            /\ op.request.body = <<[key |-> key, value |-> id]>>

\* AssignIssueV2 was called with "default": the body is {"name": null}.
C20_Witness ==
    /\ OpRan
    /\ op.name = "AssignIssueV2"
    /\ op.assignee = "default"
    /\ op.request.body[1].key = "name"
    /\ op.request.body[1].value = JsonNull
    /\ op.err = Nil


\* C21: GetLinkID returns the ID of the first link, in list order, whose
\* inward or outward issue key equals outwardIssue; with no such link it
\* returns "no link found between provided issues" and an empty ID; when
\* fetching the issue fails it returns the fetch error and an empty ID.
C21_FirstMatchingLink ==
    OpRan /\ op.name = "GetLinkID" =>
        LET links == op.issue.IssueLinks
            fetchErr == OpResult("GetIssueV2", op.answer)
            Matches(k) ==
                \/ ~links[k].InwardIssue.nil
                   /\ links[k].InwardIssue.Key = op.args.outwardIssue
                \/ ~links[k].OutwardIssue.nil
                   /\ links[k].OutwardIssue.Key = op.args.outwardIssue
            M == {k \in 1..Len(links) : Matches(k)}
        IN  /\ fetchErr # Nil => op.err = fetchErr /\ op.id = ""
            /\ fetchErr = Nil /\ M = {} =>
                   /\ op.err.msg = <<"no link found between provided issues">>
                   /\ op.id = ""
            /\ fetchErr = Nil /\ M # {} =>
                   /\ op.err = Nil
                   /\ \E k \in M : /\ \A j \in M : k <= j
                                   /\ op.id = links[k].ID

\* Two links match TEST-2, the first by its outward issue only: its ID is
\* returned, not the second one's.
C21_Witness ==
    /\ OpRan
    /\ op.name = "GetLinkID"
    /\ op.args.outwardIssue = "TEST-2"
    /\ Len(op.issue.IssueLinks) = 2
    /\ op.issue.IssueLinks[1] =
           [ID |-> "10002", InwardIssue |-> NilIssueRef,
            OutwardIssue |-> IssueRef("TEST-2")]
    /\ op.issue.IssueLinks[2] =
           [ID |-> "10001", InwardIssue |-> IssueRef("TEST-2"),
            OutwardIssue |-> NilIssueRef]
    /\ op.id = "10002"
    /\ op.err = Nil


\* C22: the body of AddIssueWorklog's request has the member started
\* exactly when the started argument is non-empty, and always timeSpent and
\* comment; its path ends in ?adjustEstimate=new&newEstimate=<value>
\* exactly when newEstimate is non-empty.
C22_WorklogRequest ==
    OpSent /\ op.name = "AddIssueWorklog" =>
        LET body == op.request.body
            path == op.request.path
            base == <<"/issue/", "TEST-1", "/worklog">>
        IN  /\ op.request.method = "POST"
            /\ "started" \in Keys(body) <=> op.args.started # ""
            /\ op.args.started # "" => body[1] = [key |-> "started",
                                                  value |-> op.args.started]
            /\ {"timeSpent", "comment"} \subseteq Keys(body)
            /\ Keys(body) \subseteq {"started", "timeSpent", "comment"}
            /\ Field(body, "timeSpent", "") = "1h"
            /\ IF op.args.newEstimate # ""
               THEN path = base \o <<"?adjustEstimate=new&newEstimate=",
                                     op.args.newEstimate>>
               ELSE path = base

\* A worklog without start time but with a new estimate was accepted:
\* no started member, the estimate query on the path.
C22_Witness ==
    /\ OpRan
    /\ op.name = "AddIssueWorklog"
    /\ op.args.started = ""
    /\ op.args.newEstimate = "1d"
    /\ Keys(op.request.body) = {"timeSpent", "comment"}
    /\ Len(op.request.path) = 5
    /\ op.err = Nil


\* The before/after command has reached its call of RankIssues.
RankCmdCalled == cmd # "none" /\ cmdline.name = "rank" /\ Called

\* C23: whenever the before/after command reaches the client call, for any
\* arguments and flag values (blank ones included), the payload has a
\* non-empty issue list and exactly one non-empty reference, the trimmed
\* flag value, so RankIssues sends the request and never returns one of its
\* validation errors to the command.
C23_CommandPayloadValid ==
    RankCmdCalled =>
        /\ Len(payload.Issues) > 0
        /\ payload.RankBeforeIssue = "" <=> payload.RankAfterIssue # ""
        /\ payload.RankBeforeIssue \in {"", "TEST-4"}
        /\ payload.RankAfterIssue \in {"", "TEST-2"}
        /\ cmdline.before # "" <=> payload.RankBeforeIssue # ""
        /\ cmdline.after # "" <=> payload.RankAfterIssue # ""
        /\ err \notin ValidationErrors
        /\ wire # <<>>

\* The command was run with --before " TEST-4 " and reached the client:
\* the payload carries TEST-4 and the request went out.
C23_Witness ==
    /\ RankCmdCalled
    /\ cmdline.before = " TEST-4 "
    /\ cmdline.args = <<"TEST-1,TEST-3">>
    /\ payload.RankBeforeIssue = "TEST-4"
    /\ pc = "dispatched"


\* C24: in every operation a transport error is returned without the
\* response being read (as it is by the fifteen plain operations and
\* GetLinkID, inside the "failed to call rank issues API: " wrapper by
\* RankIssues), a nil response with a nil error gives ErrEmptyResponse,
\* and the status or body is read only of a response that is there.
C24_TransportErrorFirst ==
    /\ OpRan =>
          /\ op.answer.err # Nil => op.err = op.answer.err /\ op.read = {}
          /\ op.answer.err = Nil /\ ~op.answer.res.present =>
                 op.err = ErrEmptyResponse /\ op.read = {}
          /\ op.read # {} => op.answer.res.present /\ op.answer.err = Nil
          /\ op.err.type # "panic" \/ op.name = "GetIssue"
    /\ Answered =>
          /\ answer.err # Nil =>
                 err = [type |-> "wrapError",
                        msg |-> <<"failed to call rank issues API: ">>
                                \o answer.err.msg]
          /\ answer.err = Nil /\ ~answer.res.present => err = ErrEmptyResponse

\* WatchIssue got neither a response nor an error from the transport and
\* returned ErrEmptyResponse.
C24_Witness ==
    /\ OpRan
    /\ op.name = "WatchIssue"
    /\ op.answer = [res |-> NilResponse, err |-> Nil]
    /\ op.err = ErrEmptyResponse
    /\ op.read = {}


\* GetIssue fetched and decoded the issue, and ran its comment loop.
GetIssueFetched ==
    OpRan /\ op.name = "GetIssue" /\ OpResult("GetIssue", op.answer) = Nil

\* C25: GetIssue converts only the last min(limit, total) comments and
\* every index its loop uses is within the comment list, whatever the
\* reported total, the number of comments present and the requested limit.
C25_IndexesInBounds ==
    GetIssueFetched =>
        LET len == op.issue.Comments
            total == op.issue.Total
            limit == op.args.numComments
            n == IF limit < total THEN limit ELSE total
        IN  /\ \A k \in 1..Len(op.used) : 0 <= op.used[k] /\ op.used[k] < len
            /\ op.err = Nil
            /\ Len(op.used) = (IF n > 0 THEN n ELSE 0)


MsgNoIssues == <<"no issues provided to rank">>
MsgNoReference == <<"either rankBeforeIssue or rankAfterIssue must be specified">>
MsgBothReferences == <<"rankBeforeIssue and rankAfterIssue cannot both be specified">>

\* C26: RankIssues reports exactly one validation error, chosen in a fixed
\* order: an empty issue list gives "no issues provided to rank" whatever
\* the references are; otherwise no reference and two references give
\* their own messages; the three messages differ from each other, and no
\* call that sent its request returns one of them.
C26_ValidationOrder ==
    /\ Called =>
          /\ Len(payload.Issues) = 0 => err.msg = MsgNoIssues /\ wire = <<>>
          /\ Len(payload.Issues) > 0 /\ BothUnset(payload) =>
                 err.msg = MsgNoReference /\ wire = <<>>
          /\ Len(payload.Issues) > 0 /\ BothSet(payload) =>
                 err.msg = MsgBothReferences /\ wire = <<>>
          /\ wire # <<>> => err.msg \notin {MsgNoIssues, MsgNoReference, MsgBothReferences}
          /\ wire # <<>> => \A m \in {MsgNoIssues, MsgNoReference, MsgBothReferences} :
                               ~Contains(err.msg, m)
    /\ Cardinality({MsgNoIssues, MsgNoReference, MsgBothReferences}) = 3

\* A call with no issues and both references set was answered with the
\* empty-list message.
C26_Witness ==
    /\ Called
    /\ Len(payload.Issues) = 0
    /\ BothSet(payload)
    /\ err.msg = MsgNoIssues
    /\ pc = "done"

====
